---- MODULE Spec2Model ----
(***************************************************************************)
(* Model of the local (embedded) engine connection of surrealdb:           *)
(*   lib/src/api/engine/local/native.rs                                    *)
(*     Connection::connect  - creates the request channel and the setup    *)
(*                            channel, spawns router(), awaits the setup   *)
(*                            message and returns the handle               *)
(*     Connection::send     - builds a Route and pushes it on the request  *)
(*                            channel                                      *)
(*     router               - the spawned task: bootstrap of the Datastore *)
(*                            followed by the dispatch loop                *)
(*   lib/src/api/opt/endpoint/indxdb.rs                                    *)
(*     into_endpoint        - builds the "indxdb://..." endpoint            *)
(*                                                                         *)
(* The channels are flume channels.  Their behaviour is modelled as the    *)
(* library implements it: a FIFO queue, a FIFO list of suspended senders   *)
(* for a bounded channel, disconnection when the last receiver or the last *)
(* sender is dropped, and the queued messages being released only when     *)
(* the channel itself is released (no sender and no receiver left).        *)
(***************************************************************************)
EXTENDS Integers, Sequences, FiniteSets, TLC

(* ------------------------------ bounds -------------------------------- *)
\* number of caller tasks that hold a clone of the connection handle
NumCallers == 2
\* number of Routes built by send over one run
MaxRoutes == 2
\* largest queue capacity passed to connect (0 = unbounded)
MaxCapacity == 1
\* number of termination sentinels enqueued over one run
MaxSentinels == 1

Callers == 1..NumCallers
Rids == 1..MaxRoutes

VARIABLES
    address,      \* the Endpoint given to connect: [url, auth]
    capacity,     \* the capacity given to connect
    connPc,       \* position of the connect future
    connChan,     \* messages in the setup channel (conn_tx -> conn_rx)
    connResult,   \* what connect returned (tag "none": it has not)
    setupSends,   \* number of messages sent on the setup channel
    dpc,          \* position of the spawned router task
    kvs,          \* the Datastore owned by the task
    constructed,  \* number of Datastore::new calls
    provisioned,  \* number of setup_initial_creds calls
    session,      \* Session owned by the loop
    vars,         \* variable bindings owned by the loop (value bound to X)
    queue,        \* request channel: items queued
    sending,      \* request channel: suspended senders, oldest first
    handle,       \* the Router of the handle (shared by its clones) is alive
    cpc,          \* position of caller c
    lastId,       \* Router.last_id
    sentinels,    \* number of sentinels sent so far
    routes,       \* the Routes built so far, by order of construction
    cur,          \* the Route the loop holds (0: none)
    result,       \* the executor's result for cur
    executing,    \* Routes dequeued whose reply send has not completed
    enqLog,       \* Routes in the order they entered the queue
    execLog,      \* Routes in the order their execution started
    exit          \* why the task returned ("no": it has not)

vars_boot == <<address, capacity, connPc, connChan, connResult, setupSends, kvs, constructed,
               provisioned>>
vars_chan == <<queue, sending, handle, cpc, lastId, sentinels, routes>>
vars_loop == <<session, vars, cur, result, executing, enqLog, execLog, exit>>
allvars == <<vars_boot, dpc, vars_chan, vars_loop>>

(* --------------------------- the descriptor --------------------------- *)
\* url.scheme() values; "indxdb" is the scheme built by into_endpoint
FileSchemes == {"fdb", "rocksdb", "speedb", "file"}
Schemes == {"mem"} \cup FileSchemes \cup {"indxdb"}

\* A URL is [scheme, host, path]; its text is scheme://host/path.
\* into_endpoint: format!("indxdb://{self}") parsed as a URL
IntoEndpoint(name) == [scheme |-> "indxdb", host |-> name, path |-> ""]

\* the paths of the URLs: a plain one and one with a percent-encoded space
Paths == {"/db", "/a%20b"}

Urls == [scheme : {"mem"} \cup FileSchemes, host : {"", "h"}, path : Paths]
            \cup {IntoEndpoint(n) : n \in {"h"}}

AsStr(url) == <<url.scheme, "://", url.host, url.path>>

\* percent-decoding of a URL path
Decode(p) == IF p = "/a%20b" THEN "/a b" ELSE p

\* Url::to_file_path: fails for a URL that names a remote host, and gives
\* the decoded path otherwise
ToFilePath(url) == IF url.host = "" THEN <<"Ok", Decode(url.path)>> ELSE <<"Err">>

\* address.config: the auth level and the settings applied to the Datastore
Configs == {[auth |-> "No", strict |-> FALSE, notifications |-> FALSE],
            [auth |-> "Root", strict |-> TRUE, notifications |-> TRUE]}

\* the endpoints connect is called with: an in-memory one, and a file one
\* whose URL names a host
ConnectUrls == {u \in Urls : /\ u.path = "/db"
                             /\ \/ u.scheme = "mem" /\ u.host = ""
                                \/ u.scheme = "file" /\ u.host = "h"}

Endpoints == [url : ConnectUrls, config : Configs]

\* address.config.auth: Root, and the levels the match sends to None
Levels == {"No", "Root", "Namespace", "Database"}

\* every endpoint: any URL with any configuration
AllEndpoints == [url : Urls,
                 config : [auth : Levels, strict : BOOLEAN, notifications : BOOLEAN]]

\* configured_root is Some(..) exactly for Level::Root
ConfiguredRoot(addr) == addr.config.auth = "Root"

\* variant: speedb is missing from the schemes that name a file
BackendPathWithoutSpeedb(url) ==
    IF url.scheme = "mem" THEN [ok |-> TRUE, val |-> <<"memory">>]
    ELSE IF url.scheme \in FileSchemes \ {"speedb"}
         THEN IF ToFilePath(url)[1] = "Ok"
              THEN [ok |-> TRUE, val |-> <<url.scheme, "://", ToFilePath(url)[2]>>]
              ELSE [ok |-> FALSE, val |-> <<"InvalidUrl">> \o AsStr(url)]
         ELSE [ok |-> TRUE, val |-> AsStr(url)]

\* the path handed to Datastore::new, or the InvalidUrl error
BackendPath(url) ==
    IF url.scheme = "mem" THEN [ok |-> TRUE, val |-> <<"memory">>]
    ELSE IF url.scheme \in FileSchemes
         THEN IF ToFilePath(url)[1] = "Ok"
              THEN [ok |-> TRUE, val |-> <<url.scheme, "://", ToFilePath(url)[2]>>]
              ELSE [ok |-> FALSE, val |-> <<"InvalidUrl">> \o AsStr(url)]
         ELSE [ok |-> TRUE, val |-> AsStr(url)]

NoKvs == [built |-> FALSE, path |-> <<>>, creds |-> FALSE, auth_enabled |-> FALSE,
          strict |-> FALSE, notifications |-> FALSE, configured |-> FALSE]

(* ------------------------------ channels ------------------------------ *)
\* route_rx lives in the task: it is dropped when the task returns
ReceiverDropped == dpc = "done"

\* route_tx lives in the connect future, then in the Router that the handle
\* and its clones share
SendersAlive == connPc \in {"start", "await"} \/ handle

\* variant: capacity 0 makes a bounded channel of no slots
BoundedAtZero == FALSE

\* flume::unbounded() for capacity 0, flume::bounded(capacity) otherwise
Unbounded == capacity = 0

\* variant: the capacity is ignored
HasRoomAlways(q) == TRUE

HasRoom(q) == Unbounded \/ Len(q) < capacity

Sentinel == [kind |-> "None", rid |-> 0]
RouteItem(rid) == [kind |-> "Some", rid |-> rid]

RidsIn(q) == {q[i].rid : i \in {j \in 1..Len(q) : q[j].kind = "Some"}}

\* the reply sender of every Route in rs is dropped without a message
DropReplyTx(rt, rs) ==
    [r \in DOMAIN rt |->
        IF r \in rs /\ rt[r].reply = "pending"
        THEN [rt[r] EXCEPT !.reply = "closed"] ELSE rt[r]]

\* a Result<()> on the setup channel: Ok(()), or the error with its text
Msg(tag, text) == [tag |-> tag, text |-> text]

\* Session and the bindings before the loop creates them
NotCreated == -1

(* -------------------------------- Init -------------------------------- *)
InitOf(endpoints) ==
    /\ address \in endpoints
    /\ capacity \in 0..MaxCapacity
    /\ connPc = "start"
    /\ connChan = <<>>
    /\ connResult = Msg("none", <<>>)
    /\ setupSends = 0
    /\ dpc = "unspawned"
    /\ kvs = NoKvs
    /\ constructed = 0
    /\ provisioned = 0
    /\ session = NotCreated
    /\ vars = NotCreated
    /\ queue = <<>>
    /\ sending = <<>>
    /\ handle = FALSE
    /\ cpc = [c \in Callers |-> "idle"]
    /\ lastId = 0
    /\ sentinels = 0
    /\ routes = <<>>
    /\ cur = 0
    /\ result = "none"
    /\ executing = {}
    /\ enqLog = <<>>
    /\ execLog = <<>>
    /\ exit = "no"

Init == InitOf(Endpoints)

(* ------------------------------ connect ------------------------------- *)
\* connect, up to the await of the setup message: the two channels are
\* created and router() spawns the task
ConnectSpawn ==
    /\ connPc = "start"
    /\ connPc' = "await"
    /\ dpc' = "path"
    /\ UNCHANGED <<address, capacity, connChan, connResult, setupSends, kvs, constructed,
                   provisioned, vars_chan, vars_loop>>

\* conn_rx.into_recv_async().await??  followed by Ok(Surreal { .. }) or the error
ConnectReturn ==
    /\ connPc = "await"
    /\ connChan # <<>>
    /\ connChan' = Tail(connChan)
    /\ connResult' = Head(connChan)
    /\ IF Head(connChan).tag = "Ok"
       THEN /\ connPc' = "ok"
            /\ handle' = TRUE
            /\ lastId' = 0
       ELSE /\ connPc' = "err"
            /\ UNCHANGED <<handle, lastId>>
    /\ UNCHANGED <<address, capacity, setupSends, dpc, kvs, constructed, provisioned,
                   queue, sending, cpc, sentinels, routes, vars_loop>>

(* ----------------------- router: the bootstrap ------------------------ *)
\* variant: only success is signalled
SignalOnlySuccess(msg) == IF msg.tag = "Ok" THEN <<msg>> ELSE <<>>

\* conn_tx.into_send_async(msg): the messages it puts on the setup channel
Signal(msg) == <<msg>>

\* variant: the error is signalled but the task does not return
BootFailNoReturn(msg) ==
    /\ connChan' = connChan \o Signal(msg)
    /\ setupSends' = setupSends + Len(Signal(msg))
    /\ dpc' = "signal"
    /\ exit' = exit

\* the task returns during the bootstrap: route_rx is dropped (no Route can
\* be queued yet: route_tx is still inside the connect future)
BootFail(msg) ==
    /\ connChan' = connChan \o Signal(msg)
    /\ setupSends' = setupSends + Len(Signal(msg))
    /\ dpc' = "done"
    /\ exit' = "bootfail"

\* lines 101-113: the path is derived; an InvalidUrl ends the task
BootPath ==
    /\ dpc = "path"
    /\ IF BackendPath(address.url).ok
       THEN /\ dpc' = "construct"
            /\ UNCHANGED <<connChan, setupSends, exit>>
       ELSE BootFail(Msg(Head(BackendPath(address.url).val),
                         Tail(BackendPath(address.url).val)))
    /\ UNCHANGED <<address, capacity, connPc, connResult, kvs, constructed, provisioned, vars_chan,
                   session, vars, cur, result, executing, enqLog, execLog>>

\* variant: credentials are set up for every level but No
NeedsCredsAnyLevel(addr) == addr.config.auth # "No"

\* whether setup_initial_creds is called after a successful Datastore::new
NeedsCreds(addr) == ConfiguredRoot(addr)

\* line 115: Datastore::new(&path) returns
BootConstruct ==
    /\ dpc = "construct"
    /\ constructed' = constructed + 1
    /\ \E ok \in BOOLEAN :
         IF ok
         THEN /\ kvs' = [kvs EXCEPT !.built = TRUE, !.path = BackendPath(address.url).val]
              /\ dpc' = IF NeedsCreds(address) THEN "creds" ELSE "signal"
              /\ UNCHANGED <<connChan, setupSends, exit>>
         ELSE /\ BootFail(Msg("DatastoreErr", <<>>))
              /\ UNCHANGED kvs
    /\ UNCHANGED <<address, capacity, connPc, connResult, provisioned, vars_chan,
                   session, vars, cur, result, executing, enqLog, execLog>>

\* line 119: kvs.setup_initial_creds(root) returns
BootCreds ==
    /\ dpc = "creds"
    /\ provisioned' = provisioned + 1
    /\ \E ok \in BOOLEAN :
         IF ok
         THEN /\ kvs' = [kvs EXCEPT !.creds = TRUE]
              /\ dpc' = "signal"
              /\ UNCHANGED <<connChan, setupSends, exit>>
         ELSE /\ BootFail(Msg("CredsErr", <<>>))
              /\ UNCHANGED kvs
    /\ UNCHANGED <<address, capacity, connPc, connResult, constructed, vars_chan,
                   session, vars, cur, result, executing, enqLog, execLog>>

\* line 124: success is signalled; the send is awaited, so connect may
\* return and callers may send before the task goes on
BootSignal ==
    /\ dpc = "signal"
    /\ connChan' = connChan \o Signal(Msg("Ok", <<>>))
    /\ setupSends' = setupSends + Len(Signal(Msg("Ok", <<>>)))
    /\ dpc' = "config"
    /\ UNCHANGED <<address, capacity, connPc, connResult, kvs, constructed, provisioned,
                   vars_chan, vars_loop>>

\* lines 125-146: with_auth_enabled, strict mode, timeouts, notifications;
\* the bindings, the stream and the Session are created
BootConfig ==
    /\ dpc = "config"
    /\ kvs' = [kvs EXCEPT !.auth_enabled = ConfiguredRoot(address),
                          !.strict = address.config.strict,
                          !.notifications = address.config.notifications,
                          !.configured = TRUE]
    /\ vars' = 0
    /\ session' = 0
    /\ dpc' = "next"
    /\ UNCHANGED <<address, capacity, connPc, connChan, connResult, setupSends, constructed,
                   provisioned, vars_chan, cur, result, executing, enqLog, execLog, exit>>

(* ------------------------ the request channel ------------------------- *)
\* flume moves suspended senders' messages into the queue while it holds
\* fewer than cap items
RECURSIVE PullPending(_, _, _)
PullPending(q, s, cap) ==
    IF s # <<>> /\ Len(q) < cap
    THEN PullPending(Append(q, Head(s).item), Tail(s), cap)
    ELSE [queue |-> q, sending |-> s]

\* the senders of s that are no longer in rest (s = moved \o rest)
Moved(s, rest) == SubSeq(s, 1, Len(s) - Len(rest))

ItemsOf(s) == [i \in 1..Len(s) |-> s[i].item]

CallersOf(s) == {s[i].caller : i \in 1..Len(s)}

RECURSIVE RouteRids(_)
RouteRids(q) ==
    IF q = <<>> THEN <<>>
    ELSE IF Head(q).kind = "Some" THEN <<Head(q).rid>> \o RouteRids(Tail(q))
         ELSE RouteRids(Tail(q))

\* a suspended send_async resumes with Ok: send returns Ok(receiver)
Accepted(rt, rs) ==
    [r \in DOMAIN rt |-> IF r \in rs THEN [rt[r] EXCEPT !.rx = "held"] ELSE rt[r]]

\* a suspended send_async resumes with Err: the Route comes back in the
\* SendError and is dropped with its reply sender and receiver
Rejected(rt, rs) ==
    [r \in DOMAIN rt |->
        IF r \in rs THEN [rt[r] EXCEPT !.rx = "none", !.reply = "closed"] ELSE rt[r]]

(* -------------------------------- send -------------------------------- *)
\* variant: the id is taken from a counter of the Routes built
RouteIdFromCounter == Len(routes) + 1

\* line 77: request: (0, self.method, param)
RouteId == 0

\* lines 75-79: the reply channel and the Route.  sent counts the messages
\* the Dispatcher has sent on the reply sender, outcome is what the executor
\* returned for the Route.
NewRoute(c) == [id |-> RouteId, owner |-> c, rx |-> "insend", reply |-> "pending",
                sent |-> 0, outcome |-> "none"]

\* variant: send_async does not look at whether the receiver is still there
SendIgnoresDisconnect == FALSE

\* line 80: send_async finds the channel disconnected
SendDisconnected == ReceiverDropped

\* router.sender.send_async(item).await by caller c; rid is 0 for a sentinel
SendAsync(c, item, rt) ==
    IF SendDisconnected
    THEN \* disconnected: Err(SendError(item)) at once
         /\ routes' = Rejected(rt, RidsIn(<<item>>))
         /\ UNCHANGED <<queue, sending, cpc, enqLog>>
    ELSE IF HasRoom(queue)
    THEN /\ queue' = Append(queue, item)
         /\ routes' = Accepted(rt, RidsIn(<<item>>))
         /\ enqLog' = enqLog \o RouteRids(<<item>>)
         /\ UNCHANGED <<sending, cpc>>
    ELSE \* bounded and full: the sender is suspended
         /\ sending' = Append(sending, [caller |-> c, item |-> item])
         /\ cpc' = [cpc EXCEPT ![c] = "blocked"]
         /\ routes' = rt
         /\ UNCHANGED <<queue, enqLog>>

\* Connection::send, lines 69-83
Send(c) ==
    /\ handle
    /\ cpc[c] = "idle"
    /\ Len(routes) < MaxRoutes
    /\ SendAsync(c, RouteItem(Len(routes) + 1), Append(routes, NewRoute(c)))
    /\ UNCHANGED <<vars_boot, dpc, handle, lastId, sentinels,
                   session, vars, cur, result, executing, execLog, exit>>

\* a None is sent on the handle's sender (the channel carries Option<Route>);
\* sent after the receiver is gone it comes back in the SendError and
\* nothing changes
SendSentinel(c) ==
    /\ handle
    /\ cpc[c] = "idle"
    /\ ~ReceiverDropped
    /\ sentinels < MaxSentinels
    /\ sentinels' = sentinels + 1
    /\ SendAsync(c, Sentinel, routes)
    /\ UNCHANGED <<vars_boot, dpc, handle, lastId,
                   session, vars, cur, result, executing, execLog, exit>>

\* the caller drops the reply receiver it got from send
Abandon(r) ==
    /\ r \in DOMAIN routes
    /\ routes[r].rx = "held"
    /\ routes[r].reply = "pending"
    /\ routes' = [routes EXCEPT ![r].rx = "abandoned"]
    /\ UNCHANGED <<vars_boot, dpc, queue, sending, handle, cpc, lastId, sentinels, vars_loop>>

\* the last clone of the handle is dropped (no send is in progress: send
\* borrows the Router); the Router goes and its sender with it, and the
\* channel with its queue once the receiver is gone too
DropHandle ==
    /\ handle
    /\ \A c \in Callers : cpc[c] = "idle"
    /\ handle' = FALSE
    /\ IF ReceiverDropped
       THEN /\ routes' = DropReplyTx(routes, RidsIn(queue))
            /\ queue' = <<>>
       ELSE UNCHANGED <<routes, queue>>
    /\ UNCHANGED <<vars_boot, dpc, sending, cpc, lastId, sentinels, vars_loop>>

(* ------------------------ router: the dispatch loop -------------------- *)
\* variant: the loop starts before the engine is configured
CanDequeueEarly == dpc \in {"config", "next"}

\* variant: the next item is taken while a Route is still being served
CanDequeueAnytime == dpc \in {"next", "exec", "reply"}

\* the loop asks the stream for the next item only at the top of the loop
CanDequeue == dpc = "next"

\* variant: the stream yields the newest queued item
DequeueLast(q) == Len(q)

\* the stream yields the oldest queued item
DequeueIndex(q) == 1

RemoveAt(q, i) == SubSeq(q, 1, i - 1) \o SubSeq(q, i + 1, Len(q))

\* a receive first lets one suspended sender in (room for capacity + 1)
RecvPull == IF Unbounded THEN [queue |-> queue, sending |-> sending]
            ELSE PullPending(queue, sending, capacity + 1)

\* the senders resumed with Ok by a pull from s that left rest suspended
Resume(s, rest, rt) == Accepted(rt, RidsIn(ItemsOf(Moved(s, rest))))

Idle(pc, cs) == [c \in Callers |-> IF c \in cs THEN "idle" ELSE pc[c]]

\* variant: the loop ends but the receiver stays alive, so the suspended
\* senders are not woken
TaskExitKeepsReceiver(reason, q, s, rt, log) ==
    /\ dpc' = "done"
    /\ exit' = reason
    /\ queue' = q
    /\ sending' = s
    /\ cpc' = Idle(cpc, CallersOf(sending) \ CallersOf(s))
    /\ routes' = rt
    /\ enqLog' = log

\* the task returns (line 158): route_rx is dropped, which disconnects the
\* channel: suspended senders that fit are let in, the others fail; the
\* queue is released with the channel, that is when no sender is left
TaskExit(reason, q, s, rt, log) ==
    LET p == IF Unbounded THEN [queue |-> q, sending |-> s]
             ELSE PullPending(q, s, capacity)
        let_in == Resume(s, p.sending, rt)
        failed == Rejected(let_in, RidsIn(ItemsOf(p.sending)))
    IN /\ dpc' = "done"
       /\ exit' = reason
       /\ sending' = <<>>
       /\ cpc' = Idle(cpc, CallersOf(sending))
       /\ enqLog' = log \o RouteRids(ItemsOf(Moved(s, p.sending)))
       /\ IF SendersAlive
          THEN /\ queue' = p.queue
               /\ routes' = failed
          ELSE /\ queue' = <<>>
               /\ routes' = DropReplyTx(failed, RidsIn(p.queue))

\* variant: the session or the bindings are made anew in every iteration
LoopStateFresh(x) == 0

\* lines 144-148: vars and session are declared before the while-let, so an
\* iteration starts with the value x the iteration before left
LoopState(x) == x

\* line 148: stream.next() yields Some(Some(route)); line 149 calls the executor
Dequeue ==
    /\ CanDequeue
    /\ RecvPull.queue # <<>>
    /\ LET q == RecvPull.queue
           i == DequeueIndex(q)
       IN /\ q[i].kind = "Some"
          /\ queue' = RemoveAt(q, i)
          /\ cur' = q[i].rid
          /\ executing' = executing \cup {q[i].rid}
          /\ execLog' = Append(execLog, q[i].rid)
    /\ sending' = RecvPull.sending
    /\ routes' = Resume(sending, RecvPull.sending, routes)
    /\ cpc' = Idle(cpc, CallersOf(Moved(sending, RecvPull.sending)))
    /\ enqLog' = enqLog \o RouteRids(ItemsOf(Moved(sending, RecvPull.sending)))
    /\ session' = LoopState(session)
    /\ vars' = LoopState(vars)
    /\ dpc' = "exec"
    /\ UNCHANGED <<vars_boot, handle, lastId, sentinels, result, exit>>

\* line 148: stream.next() yields Some(None): the while-let ends
DequeueSentinel ==
    /\ CanDequeue
    /\ RecvPull.queue # <<>>
    /\ LET q == RecvPull.queue
           i == DequeueIndex(q)
       IN /\ q[i].kind = "None"
          /\ TaskExit("sentinel", RemoveAt(q, i), RecvPull.sending,
                      Resume(sending, RecvPull.sending, routes),
                      enqLog \o RouteRids(ItemsOf(Moved(sending, RecvPull.sending))))
    /\ UNCHANGED <<vars_boot, handle, lastId, sentinels,
                   session, vars, cur, result, executing, execLog>>

\* variant: the stream ends as soon as no sender is left
ClosedWhenNoSenders == ~SendersAlive

\* the stream ends (None) when every sender is gone and the queue is empty
StreamEnded == queue = <<>> /\ ~SendersAlive

\* line 148: stream.next() yields None
ObserveClosed ==
    /\ CanDequeue
    /\ StreamEnded
    /\ TaskExit("closed", queue, sending, routes, enqLog)
    /\ UNCHANGED <<vars_boot, handle, lastId, sentinels,
                   session, vars, cur, result, executing, execLog>>

\* super::router(route.request, &kvs, &mut session, &mut vars): the outcomes
\* of executing Route r on session s and bindings v.  The request of Route
\* r binds X to r and selects r in the session; a failing execution leaves
\* both as they were, or the bindings already written.
Execute(r, s, v) ==
    {[res |-> "ok", session |-> r, vars |-> r],
     [res |-> "err", session |-> s, vars |-> v],
     [res |-> "err", session |-> s, vars |-> r]}

\* variant: the executor works on a copy of the session and the bindings
PassedByValue(before, after) == before

\* line 149: &mut session, &mut vars: what the executor wrote is what the
\* loop holds afterwards
PassedByMutRef(before, after) == after

\* line 149: the executor returns
ExecReturn ==
    /\ dpc = "exec"
    /\ \E o \in Execute(cur, session, vars) :
         /\ result' = o.res
         /\ session' = PassedByMutRef(session, o.session)
         /\ vars' = PassedByMutRef(vars, o.vars)
    /\ dpc' = "reply"
    /\ UNCHANGED <<vars_boot, vars_chan, cur, executing, enqLog, execLog, exit>>

\* variant: an executor error ends the loop
StopOnError(res, delivered) == IF res = "err" THEN "done" ELSE "next"

\* variant: a failed reply send ends the loop
StopOnSendFailure(res, delivered) == IF delivered THEN "next" ELSE "done"

\* where the loop goes after the reply send for result res, delivered or
\* not: both arms of the match fall through to the next iteration
AfterReply(res, delivered) == "next"

\* variant: both arms of the match reply Ok
ReplyAlwaysOk(res) == "ok"

\* lines 150-155: Ok(value) is answered with Ok(value), Err(error) with Err(error)
ReplyMessage(res) == res

\* lines 150-155: route.response.into_send_async(..).await, its result ignored
ReplySend ==
    /\ dpc = "reply"
    /\ LET delivered == routes[cur].rx \in {"held", "insend"}
       IN /\ routes' = [routes EXCEPT
                          ![cur].reply = IF delivered THEN ReplyMessage(result)
                                         ELSE "discarded",
                          ![cur].sent = @ + 1,
                          ![cur].outcome = result]
          /\ dpc' = AfterReply(result, delivered)
    /\ executing' = executing \ {cur}
    /\ cur' = 0
    /\ result' = "none"
    /\ UNCHANGED <<vars_boot, queue, sending, handle, cpc, lastId, sentinels,
                   session, vars, enqLog, execLog, exit>>

(* ------------------------------- Next --------------------------------- *)
Next ==
    \/ ConnectSpawn
    \/ ConnectReturn
    \/ BootPath
    \/ BootConstruct
    \/ BootCreds
    \/ BootSignal
    \/ BootConfig
    \/ \E c \in Callers : Send(c)
    \/ \E c \in Callers : SendSentinel(c)
    \/ \E r \in Rids : Abandon(r)
    \/ DropHandle
    \/ Dequeue
    \/ DequeueSentinel
    \/ ObserveClosed
    \/ ExecReturn
    \/ ReplySend

Spec == Init /\ [][Next]_allvars

\* the steps of the spawned task (lines 91-158)
TaskStep ==
    \/ BootPath
    \/ BootConstruct
    \/ BootCreds
    \/ BootSignal
    \/ BootConfig
    \/ Dequeue
    \/ DequeueSentinel
    \/ ObserveClosed
    \/ ExecReturn
    \/ ReplySend

\* the runtime keeps polling the spawned task while it can make a step, and
\* every await in it (the engine, the executor, a send) completes
FairSpec == Spec /\ WF_allvars(TaskStep)

\* connect alone, called with any endpoint: the bootstrap up to the start
\* of the loop, and what connect returns
BootInit == InitOf(AllEndpoints)

BootNext ==
    \/ ConnectSpawn
    \/ ConnectReturn
    \/ BootPath
    \/ BootConstruct
    \/ BootCreds
    \/ BootSignal
    \/ BootConfig

BootSpec == BootInit /\ [][BootNext]_allvars

(* ------------------------------ claims -------------------------------- *)
\* the Routes that entered the queue and whose execution has not started
Waiting == {enqLog[i] : i \in 1..Len(enqLog)} \ {execLog[i] : i \in 1..Len(execLog)}

ReplyDone(r) == routes[r].reply \in {"ok", "err", "discarded"}

\* C1: at most one Route is being executed at any time, and a Route is
\* dequeued only when the reply send of every Route dequeued before it has
\* completed, whatever the number of callers sending.
C1_OneAtATime ==
    /\ Cardinality(executing) <= 1
    /\ \A i \in 1..Len(execLog) - 1 : ReplyDone(execLog[i])
    /\ executing = IF dpc \in {"exec", "reply"} THEN {cur} ELSE {}

\* a Route is being executed while a Route of another caller is queued
C1_Witness ==
    /\ dpc = "exec"
    /\ \E r \in RidsIn(queue) : routes[r].owner # routes[cur].owner

\* C2: the Routes are executed in the order they entered the queue; when a
\* Route is executed, every Route that entered the queue before it has been
\* executed and its reply send has completed; the Routes sent one after the
\* other on one handle are executed in the order of the calls.
C2_ArrivalOrder ==
    /\ Len(execLog) <= Len(enqLog)
    /\ \A i \in 1..Len(execLog) : execLog[i] = enqLog[i]
    /\ \A i, j \in 1..Len(execLog) : i < j => ReplyDone(execLog[i])
    /\ \A i, j \in 1..Len(execLog) :
         (routes[execLog[i]].owner = routes[execLog[j]].owner /\ execLog[i] < execLog[j])
            => i < j

\* two Routes sent one after the other on one handle have both been
\* executed and replied to
C2_Witness ==
    /\ Len(execLog) = 2
    /\ routes[execLog[1]].owner = routes[execLog[2]].owner
    /\ ReplyDone(execLog[2])

BootPositions == {"unspawned", "path", "construct", "creds", "signal"}

\* C3: on every path through the bootstrap exactly one message is sent on
\* the setup channel: none while the bootstrap runs, one from the moment it
\* is over by any path, never two; and it is sent before anything is
\* dequeued from the request channel.
C3_OneSetupMessage ==
    /\ setupSends <= 1
    /\ dpc \in BootPositions => setupSends = 0 /\ execLog = <<>> /\ exit = "no"
    /\ dpc \notin BootPositions => setupSends = 1
    /\ (execLog # <<>> \/ exit \in {"sentinel", "closed"}) => setupSends = 1

\* the bootstrap ended on the credential failure path, one message sent
C3_Witness ==
    /\ exit = "bootfail"
    /\ kvs.built
    /\ provisioned = 1
    /\ setupSends = 1

\* an error was signalled on the setup channel
ErrorSignalled == (connChan # <<>> /\ Head(connChan).tag # "Ok") \/ connPc = "err"

\* C4: if the bootstrap fails, connect returns an error and no handle, the
\* loop is never entered (the task has returned, Session and bindings were
\* never created) and no Route is ever built, queued or executed.
C4_BootFailure ==
    ErrorSignalled =>
        /\ dpc = "done" /\ exit = "bootfail"
        /\ connPc \in {"await", "err"}
        /\ connPc = "await" => Len(connChan) = 1
        /\ ~handle
        /\ session = NotCreated /\ vars = NotCreated
        /\ routes = <<>> /\ queue = <<>> /\ execLog = <<>>

\* connect has returned the InvalidUrl error of a file URL
C4_Witness ==
    /\ connPc = "err"
    /\ address.url.scheme = "file"
    /\ constructed = 0

C6_SentinelDropsReplies ==
    exit = "sentinel" =>
        /\ dpc = "done" /\ executing = {}
        /\ \A r \in Waiting : routes[r].reply = "closed"

\* C7 as stated, in the form a finite run refutes: once the task has
\* returned, no caller holds the receiver of a reply that is neither sent
\* nor dropped (such a caller waits for ever).
C7_NoCallerWaitsForever ==
    dpc = "done" =>
        \A r \in DOMAIN routes : routes[r].rx = "held" => routes[r].reply # "pending"

\* the step that ends the reply send of the Route the loop holds
ReplyStep == dpc = "reply" /\ dpc' # "reply"

OthersUntouched == \A r \in DOMAIN routes : r # cur => routes'[r] = routes[r]

\* C8: when the executor returns an error, the error goes to the reply
\* channel of that Route alone and the loop goes on to the next item, with
\* the queue, the Session and the bindings as the executor left them; the
\* Session and the bindings change in no step but an executor's; and when
\* the loop ends on closure every Route that entered the queue has been
\* executed and replied to, those queued behind a failing one included.
C8_FailureIsolation ==
    /\ [][(ReplyStep /\ result = "err") =>
            /\ dpc' = "next" /\ exit' = "no"
            /\ routes'[cur].reply = IF routes[cur].rx = "held" THEN "err" ELSE "discarded"
            /\ OthersUntouched
            /\ UNCHANGED <<queue, sending, session, vars>>]_allvars
    /\ [][dpc \notin {"exec", "config"} => UNCHANGED <<session, vars>>]_allvars
    /\ [](exit = "closed" =>
            \A i \in 1..Len(enqLog) : i <= Len(execLog) /\ ReplyDone(enqLog[i]))

\* a Route failed and got the error as its reply, and the Route queued
\* behind it was executed and answered
C8_Witness ==
    /\ Len(execLog) = 2
    /\ routes[execLog[1]].reply = "err"
    /\ routes[execLog[2]].reply = "ok"
    /\ session = execLog[2]

\* C9: a Route whose reply receiver was dropped, before or after it was
\* dequeued, is executed like any other; its reply send fails, the failure
\* is discarded, and the loop goes on to the next item; dropping a receiver
\* changes nothing of the queue or of the loop.
C9_Cancellation ==
    /\ [][(ReplyStep /\ routes[cur].rx = "abandoned") =>
            /\ dpc' = "next" /\ exit' = "no"
            /\ routes'[cur].reply = "discarded"
            /\ OthersUntouched
            /\ UNCHANGED <<queue, sending, session, vars>>]_allvars
    /\ [][(\E r \in DOMAIN routes : routes[r].rx = "held" /\ routes'[r].rx = "abandoned")
            => UNCHANGED <<dpc, queue, sending, vars_loop>>]_allvars
    /\ [](\A r \in DOMAIN routes :
            routes[r].reply = "discarded" => \E i \in 1..Len(execLog) : execLog[i] = r)

\* the reply of an abandoned Route was discarded and the Route queued
\* behind it was executed and answered
C9_Witness ==
    /\ Len(execLog) = 2
    /\ routes[execLog[1]].reply = "discarded"
    /\ routes[execLog[2]].reply = "ok"

\* a send step: a Route is built
SendStep == Len(routes') = Len(routes) + 1

\* a receive step of the loop
RecvStep == dpc = "next" /\ dpc' # "next"

\* C10: with capacity K > 0 the queue never holds more than K items; a
\* send issued while K items are queued (the loop not having ended)
\* suspends, its Route staying out of the queue; and when the loop dequeues
\* an item, the send suspended first completes: its item enters the queue.
C10_Backpressure ==
    /\ [](capacity > 0 => Len(queue) <= capacity)
    /\ [][(SendStep /\ capacity > 0 /\ Len(queue) = capacity /\ ~ReceiverDropped) =>
            /\ queue' = queue
            /\ Len(sending') = Len(sending) + 1
            /\ sending'[Len(sending')].item = RouteItem(Len(routes'))
            /\ cpc'[routes'[Len(routes')].owner] = "blocked"]_allvars
    /\ [][(RecvStep /\ sending # <<>>) =>
            /\ Len(queue') = capacity
            /\ queue'[capacity] = Head(sending).item
            /\ cpc'[Head(sending).caller] = "idle"
            /\ \A r \in RidsIn(<<Head(sending).item>>) : routes'[r].rx = "held"]_allvars

\* the queue holds K items, one send of a Route is suspended behind it, and
\* the loop is about to take an item
C10_Witness ==
    /\ capacity > 0
    /\ Len(queue) = capacity
    /\ Len(sending) = 1
    /\ sending[1].item.kind = "Some"
    /\ cpc[sending[1].caller] = "blocked"
    /\ dpc = "next"

\* the Routes whose execution has started
Executed == {execLog[i] : i \in 1..Len(execLog)}

\* C11: for every Route the Dispatcher has executed it has sent exactly one
\* message on that Route's reply channel, Ok exactly when the executor
\* succeeded and Err exactly when it failed (a message sent to a dropped
\* receiver is lost); a Route not executed got none; a reply is only ever
\* sent on the channel of the Route being served, and a reply once there
\* is never followed or replaced by another.
C11_OneReply ==
    /\ [](\A r \in DOMAIN routes :
            /\ routes[r].sent <= 1
            /\ routes[r].sent = 1 <=> (r \in Executed /\ r \notin executing)
            /\ routes[r].sent = 1 =>
                  /\ routes[r].outcome \in {"ok", "err"}
                  /\ routes[r].reply = IF routes[r].rx = "abandoned" THEN "discarded"
                                       ELSE routes[r].outcome
            /\ routes[r].sent = 0 => routes[r].reply \in {"pending", "closed"})
    /\ [][\A r \in DOMAIN routes :
            routes'[r].sent # routes[r].sent => ReplyStep /\ r = cur]_allvars
    /\ [][\A r \in DOMAIN routes :
            ReplyDone(r) => routes'[r].reply = routes[r].reply]_allvars

\* one Route was answered Ok and another Err, one message each
C11_Witness ==
    /\ Len(routes) = 2
    /\ \E r1, r2 \in DOMAIN routes :
          /\ routes[r1].reply = "ok" /\ routes[r1].outcome = "ok" /\ routes[r1].sent = 1
          /\ routes[r2].reply = "err" /\ routes[r2].outcome = "err" /\ routes[r2].sent = 1

\* C12: a send made after the Dispatcher has ended and dropped the receiver
\* fails at once: the caller gets an error and no reply receiver, the Route
\* enters neither the queue nor the list of suspended senders, the caller
\* is not suspended, and nothing is executed; a Route whose send failed is
\* never queued or executed.
C12_ClosedSend ==
    /\ [][(SendStep /\ ReceiverDropped) =>
            /\ routes'[Len(routes')].rx = "none"
            /\ routes'[Len(routes')].reply = "closed"
            /\ \A r \in DOMAIN routes : routes'[r] = routes[r]
            /\ UNCHANGED <<queue, sending, cpc, enqLog, dpc, vars_loop>>]_allvars
    /\ [](\A r \in DOMAIN routes :
            routes[r].rx = "none" =>
                /\ r \notin Executed
                /\ r \notin RidsIn(queue)
                /\ routes[r].sent = 0)

\* on an unbounded channel, where no send is ever suspended, a send failed
\* after the loop ended on a sentinel with the handle still held
C12_Witness ==
    /\ capacity = 0
    /\ exit = "sentinel"
    /\ handle
    /\ \E r \in DOMAIN routes : routes[r].rx = "none" /\ routes[r].reply = "closed"
    /\ \A c \in Callers : cpc[c] = "idle"

\* C13: once every sender is dropped the Dispatcher still executes and
\* replies to each Route that is queued: it observes the closure only at
\* the top of the loop with the queue empty, and when it has ended on
\* closure no sentinel was ever sent and every Route that entered the queue
\* has been executed and replied to; and, the task being scheduled fairly,
\* from the moment no sender is left the Dispatcher eventually ends.
C13_Shutdown ==
    /\ [][(exit # "closed" /\ exit' = "closed") =>
            /\ dpc = "next" /\ dpc' = "done"
            /\ ~SendersAlive
            /\ queue = <<>> /\ sending = <<>>]_allvars
    /\ [](exit = "closed" =>
            /\ sentinels = 0
            /\ queue = <<>>
            /\ execLog = enqLog
            /\ \A r \in DOMAIN routes : routes[r].rx # "none" /\ routes[r].sent = 1)
    /\ [][(~SendersAlive /\ queue # <<>> /\ dpc # "done") => exit' = "no" \/ exit' = "sentinel"]_allvars
    /\ (~SendersAlive ~> dpc = "done")

\* the loop has ended on closure after executing and answering two Routes
C13_Witness ==
    /\ exit = "closed"
    /\ ~handle
    /\ Len(execLog) = 2
    /\ \A r \in DOMAIN routes : ReplyDone(r)

\* connect has returned
Returned == connPc \in {"ok", "err"}

\* C14: setup_initial_creds is called, once, exactly when the auth level is
\* Root and Datastore::new succeeded; when it fails the task ends and
\* connect returns that error; with any other level it is never called and
\* connect returns Ok whenever the construction succeeded; and the engine's
\* auth-enabled flag is set to whether the level is Root.
C14_CredentialGate ==
    LET root == address.config.auth = "Root"
    IN /\ provisioned = (IF root /\ kvs.built /\ dpc # "creds" THEN 1 ELSE 0)
       /\ dpc = "creds" => root /\ kvs.built
       /\ (provisioned = 1 /\ ~kvs.creds) =>
             /\ exit = "bootfail"
             /\ IF Returned THEN connPc = "err" /\ connResult.tag = "CredsErr"
                ELSE connChan = <<Msg("CredsErr", <<>>)>>
       /\ connResult.tag = "CredsErr" => provisioned = 1 /\ ~kvs.creds
       /\ (~root /\ kvs.built) =>
             /\ exit # "bootfail"
             /\ Returned => connPc = "ok" /\ connResult.tag = "Ok"
       /\ (root /\ kvs.built /\ Returned) => (connPc = "ok" <=> kvs.creds)
       /\ kvs.configured => kvs.auth_enabled = root
       /\ kvs.auth_enabled => root

\* with level Root the construction succeeded, the credential setup failed
\* and connect returned its error
C14_Witness ==
    /\ address.config.auth = "Root"
    /\ kvs.built
    /\ provisioned = 1
    /\ ~kvs.creds
    /\ connPc = "err"
    /\ connResult.tag = "CredsErr"

\* every Route sent so far was answered Ok
AllAnsweredOk == routes # <<>> /\ \A r \in DOMAIN routes : routes[r].reply = "ok"

\* C15: when the callers' requests, each binding X to the id it carries,
\* have all been answered Ok, every one of them was executed, and the
\* bindings hold for X the single value written by the request dequeued
\* last, which is one of the ids sent, whichever way the sends interleaved
\* with each other and with the loop.
C15_LastWriterWins ==
    AllAnsweredOk =>
        /\ Len(execLog) = Len(routes)
        /\ Executed = DOMAIN routes
        /\ vars \in DOMAIN routes
        /\ vars = execLog[Len(execLog)]
        /\ routes[vars].owner \in Callers

\* two callers sent one request each, caller 2 first; both were answered
\* Ok and X holds the id of the request dequeued last, caller 1's
C15_Witness ==
    /\ AllAnsweredOk
    /\ Len(routes) = 2
    /\ routes[1].owner = 2
    /\ routes[2].owner = 1
    /\ execLog = <<1, 2>>
    /\ vars = 2

\* C16: with capacity 0 no send is ever suspended: no caller is blocked and
\* no sender waits, and a send made while the receiver is alive puts its
\* Route at the end of the queue and returns the reply receiver, however
\* many items are queued and wherever the Dispatcher is.
C16_UnboundedAtZero ==
    /\ [](capacity = 0 => sending = <<>> /\ \A c \in Callers : cpc[c] = "idle")
    /\ [][(SendStep /\ capacity = 0 /\ ~ReceiverDropped) =>
            /\ queue' = Append(queue, RouteItem(Len(routes')))
            /\ routes'[Len(routes')].rx = "held"
            /\ UNCHANGED <<sending, cpc, dpc>>]_allvars

\* with capacity 0 two Routes are queued while the Dispatcher has not yet
\* reached its loop, and no caller is suspended
C16_Witness ==
    /\ capacity = 0
    /\ Len(queue) = 2
    /\ \A i \in 1..Len(queue) : queue[i].kind = "Some"
    /\ dpc = "config"
    /\ \A c \in Callers : cpc[c] = "idle"

\* the Session and the bindings exist
Created == session # NotCreated /\ vars # NotCreated

\* C17: the Session and the bindings are created once, together, when the
\* loop starts and before any Route is executed, as the default Session and
\* the empty bindings; from then on they are the values the executor left:
\* taking the next Route and sending a reply, delivered or not, leave them
\* as they are, and only an executor call changes them, so each request
\* runs on what the one before it left, failed or abandoned or not.
C17_OneSession ==
    /\ [](IF dpc \in BootPositions \cup {"config"} \/ exit = "bootfail"
          THEN session = NotCreated /\ vars = NotCreated
          ELSE Created)
    /\ [][(~Created /\ (session' # NotCreated \/ vars' # NotCreated)) =>
            /\ dpc = "config" /\ dpc' = "next"
            /\ session' = 0 /\ vars' = 0
            /\ execLog = <<>> /\ execLog' = <<>>]_allvars
    /\ [][(dpc = "next" /\ dpc' = "exec") => UNCHANGED <<session, vars>>]_allvars
    /\ [][ReplyStep => UNCHANGED <<session, vars>>]_allvars
    /\ [][(Created /\ ~(dpc = "exec" /\ dpc' = "reply")) => UNCHANGED <<session, vars>>]_allvars

\* the first request failed after binding X and its reply was lost to a
\* dropped receiver; the second request is being executed on what it left
C17_Witness ==
    /\ Len(execLog) = 2
    /\ dpc = "exec"
    /\ cur = execLog[2]
    /\ routes[execLog[1]].outcome = "err"
    /\ routes[execLog[1]].reply = "discarded"
    /\ vars = execLog[1]
    /\ session = 0

\* Ok(()) is in the setup channel or connect has returned it
OkSignalled == connChan = <<Msg("Ok", <<>>)>> \/ connResult.tag = "Ok"

\* C18: Datastore::new is called at most once, and once when the engine
\* exists; Ok is signalled only when the construction, and with level Root
\* the credential setup, have succeeded; at the moment Ok is signalled the
\* engine's settings are not yet applied, and callers may queue Routes
\* then; yet no Route is executed before the auth flag, strict mode and
\* notifications are all applied as the configuration says.
C18_ConfiguredBeforeFirstRequest ==
    /\ [](/\ constructed <= 1
          /\ kvs.built => constructed = 1
          /\ OkSignalled =>
                /\ kvs.built
                /\ address.config.auth = "Root" => kvs.creds /\ provisioned = 1)
    /\ [][(~OkSignalled /\ OkSignalled') => ~kvs'.configured /\ dpc' = "config"]_allvars
    /\ [](~kvs.configured => execLog = <<>> /\ executing = {} /\ dpc \notin {"exec", "reply"})
    /\ [](execLog # <<>> =>
            /\ kvs.configured
            /\ kvs.auth_enabled = (address.config.auth = "Root")
            /\ kvs.strict = address.config.strict
            /\ kvs.notifications = address.config.notifications)

\* connect has returned the handle and a caller's Route is already queued
\* while the engine's settings are still to be applied
C18_Witness ==
    /\ connPc = "ok"
    /\ handle
    /\ dpc = "config"
    /\ ~kvs.configured
    /\ queue # <<>>
    /\ queue[1].kind = "Some"
    /\ address.config.strict

\* the path the claim gives for a URL that names no host
LocationOf(u) ==
    IF u.scheme = "mem" THEN <<"memory">>
    ELSE IF u.scheme \in {"fdb", "rocksdb", "speedb", "file"}
         THEN <<u.scheme, "://", ToFilePath(u)[2]>>
         ELSE <<u.scheme, "://", u.host, u.path>>

\* the URL has a file scheme and does not convert to a path
NoFilePath(u) ==
    u.scheme \in {"fdb", "rocksdb", "speedb", "file"} /\ ToFilePath(u)[1] = "Err"

\* C19: scheme mem gives the path "memory"; schemes fdb, rocksdb, speedb and
\* file give scheme://path with the URL's filesystem path, or, when the URL
\* does not convert to one, the task ends with InvalidUrl carrying the
\* URL's text, Datastore::new never being called; any other scheme gives
\* the URL's text; and the engine, when built, was built on that path.
C19_BackendLocation ==
    LET u == address.url
        invalid == Msg("InvalidUrl", <<u.scheme, "://", u.host, u.path>>)
    IN /\ IF NoFilePath(u)
          THEN /\ ~BackendPath(u).ok
               /\ constructed = 0 /\ ~kvs.built
               /\ dpc \in {"unspawned", "path", "done"}
               /\ dpc = "done" =>
                     /\ exit = "bootfail"
                     /\ IF Returned THEN connPc = "err" /\ connResult = invalid
                        ELSE connChan = <<invalid>>
          ELSE /\ BackendPath(u).ok
               /\ BackendPath(u).val = LocationOf(u)
               /\ connResult.tag # "InvalidUrl"
               /\ \A i \in 1..Len(connChan) : connChan[i].tag # "InvalidUrl"
       /\ kvs.built => kvs.path = LocationOf(u)
       /\ constructed > 0 => dpc \notin {"unspawned", "path"}

\* connect has returned InvalidUrl with the text of a speedb URL that names
\* a host, and Datastore::new was not called
C19_Witness ==
    /\ address.url = [scheme |-> "speedb", host |-> "h", path |-> "/a%20b"]
    /\ connPc = "err"
    /\ connResult = Msg("InvalidUrl", <<"speedb", "://", "h", "/a%20b">>)
    /\ constructed = 0
    /\ exit = "bootfail"

\* C20: when the Dispatcher ends, on a sentinel in particular, no send
\* stays suspended: each send suspended at that moment completes, its Route
\* either accepted into the queue, where it stays unexecuted with its reply
\* pending, or returned with an error; after the end nothing is executed;
\* and the reply send is never suspended: when the Dispatcher is about to
\* reply, nothing was sent on that Route's single-slot reply channel yet
\* and the send can be made.
C20_NoSenderStranded ==
    /\ [](dpc = "done" =>
            /\ sending = <<>>
            /\ \A c \in Callers : cpc[c] = "idle"
            /\ \A r \in DOMAIN routes : routes[r].rx # "insend")
    /\ [][(dpc # "done" /\ exit' = "sentinel") =>
            \A i \in 1..Len(sending) :
                \A r \in RidsIn(<<sending[i].item>>) :
                    \/ /\ routes'[r].rx = "held"
                       /\ routes'[r].reply = "pending"
                       /\ r \in RidsIn(queue')
                    \/ /\ routes'[r].rx = "none"
                       /\ routes'[r].reply = "closed"
                       /\ r \notin RidsIn(queue')]_allvars
    /\ [][dpc = "done" => dpc' = "done" /\ execLog' = execLog /\ executing' = {}]_allvars
    /\ [](dpc = "reply" =>
            /\ routes[cur].sent = 0
            /\ routes[cur].reply = "pending"
            /\ ENABLED ReplySend)

\* the loop ended on a sentinel with capacity 1: the Route whose send was
\* suspended behind the sentinel was accepted and stays queued, unexecuted;
\* another send ended with an error; no caller is suspended
C20_Witness ==
    /\ capacity = 1
    /\ exit = "sentinel"
    /\ Len(queue) = 1
    /\ queue[1].kind = "Some"
    /\ routes[queue[1].rid].rx = "held"
    /\ queue[1].rid \notin Executed
    /\ \E r \in DOMAIN routes : routes[r].rx = "none"
    /\ \A c \in Callers : cpc[c] = "idle"

====
